---- MODULE Spec2Model ----
(***************************************************************************)
(* Model of AsmDecorator (src/src/decorator.ts): the line-correspondence   *)
(* index between a source view and an assembly listing view, and the       *)
(* selection / visibility event handlers that drive the decorations.       *)
(*                                                                         *)
(* Strings (paths, URIs) are tuples of one-character strings.  Ranges of   *)
(* whole lines are represented by their 0-based line number.  A list of    *)
(* ranges given to setDecorations is a tuple of line numbers.              *)
(***************************************************************************)
EXTENDS Integers, Sequences, FiniteSets, TLC

\* ------------------------------------------------------------------ bounds
\* largest 1-based line number carried by a source annotation (0 included)
MaxSourceLine == 2
\* longest listing drawn for the reload specification SpecLoad
MaxListingLen == 2
\* largest line count of the listing view's text document
MaxAsmLineCount == 3
\* largest line count of the source view's text document
MaxSrcLineCount == 2

\* ------------------------------------------------------------------ host
\* Editors (view slots) of the host and the document each one shows.
Editors == {"e1", "e2", "e3", "e4", "e5"}
NoEditor == "none"
DocOf(e) ==
    CASE e = "e1" -> "src"
      [] e = "e2" -> "asm"
      [] e = "e3" -> "src"
      [] e = "e5" -> "asm"
      [] OTHER    -> "other"

\* Paths the source document may have (uri.path of srcEditor.document).
SrcPaths == { <<"/", "p", "/", "a">>, <<"/", "b", "a">> }
\* Values of AsmLine.source.file; Undefined stands for an absent file.
Undefined == <<"undefined">>
FileA == <<"a">>
FileDirA == <<"/", "q", "/", "a", "/">>
FileBA == <<"b", "a">>
Files == {FileA, FileDirA, FileBA}

\* URI of the listing document and the URIs a change notification may name.
\* Two Uri objects may spell the same URI: id tells the objects apart.
AsmUri == [id |-> "uri1", scheme |-> "disassembly", path |-> <<"/", "p", "/", "a">>]
AsmUriCopy == [id |-> "uri2", scheme |-> "disassembly", path |-> <<"/", "p", "/", "a">>]
OtherUri == [id |-> "uri3", scheme |-> "disassembly", path |-> <<"/", "p", "/", "b">>]
NoUri == [id |-> "none", scheme |-> "", path |-> <<>>]
ChangedUris == {AsmUri, AsmUriCopy, OtherUri}
\* Uri.toString(): scheme, a colon, the path.
UriToString(u) == <<u.scheme, ":">> \o u.path

\* ------------------------------------------------------------------ listing
\* AsmLine.source: absent, or a file (possibly undefined) and a 1-based line
NoSource == [present |-> FALSE, file |-> Undefined, line |-> 0]
AsmSource(f, l) == [present |-> TRUE, file |-> f, line |-> l]
AsmLine(src) == [source |-> src]

AsmLines ==
    {AsmLine(NoSource)} \cup
    {AsmLine(AsmSource(f, l)) : f \in Files \cup {Undefined}, l \in 0..MaxSourceLine}

RECURSIVE SeqsUpTo(_, _)
SeqsUpTo(S, n) ==
    IF n = 0 THEN {<<>>}
    ELSE LET shorter == SeqsUpTo(S, n - 1)
         IN  shorter \cup {Append(s, x) : s \in {t \in shorter : Len(t) = n - 1}, x \in S}

\* every listing of at most MaxListingLen lines
AllListings == SeqsUpTo(AsmLines, MaxListingLen)

\* ------------------------------------------------------------------ strings
\* String.prototype.endsWith
EndsWith(s, suffix) ==
    /\ Len(suffix) <= Len(s)
    /\ \A k \in 1..Len(suffix) : s[Len(s) - Len(suffix) + k] = suffix[k]

\* path.basename (posix): trailing slashes are dropped, then the part after
\* the last remaining slash is returned; a path of slashes only gives "".
Basename(p) ==
    LET nonSlash == {k \in 1..Len(p) : p[k] # "/"}
    IN  IF nonSlash = {} THEN <<>>
        ELSE LET end    == CHOOSE k \in nonSlash : \A j \in nonSlash : j <= k
                 slashB == {k \in 1..end : p[k] = "/"}
                 start  == IF slashB = {} THEN 1
                           ELSE 1 + (CHOOSE k \in slashB : \A j \in slashB : j <= k)
             IN  SubSeq(p, start, end)

\* ------------------------------------------------------------------ state
VARIABLES
    srcEditor,            \* this.srcEditor
    asmEditor,            \* this.asmEditor
    document,             \* this.document.lines, the listing fetched last
    mappings,             \* this.mappings: source line -> listing indices
    visible,              \* this.visible
    registrations,        \* this.registrations: the members not yet disposed
    visibleTextEditors,   \* window.visibleTextEditors, as a set
    selectedDecorations,  \* per editor, ranges shown with selectedLineDecorationType
    unusedDecorations,    \* per editor, ranges shown with unusedLineDecorationType
    srcPath,              \* srcEditor.document.uri.path
    srcLineCount,         \* srcEditor.document.lineCount
    asmLineCount,         \* asmEditor.document.lineCount
    dimUnused,            \* setting compilerexplorer.dimUnusedSourceLines
    providerDoc,          \* the listing the provider currently holds for AsmUri
    calls,                \* host and provider calls issued by the last handler
    fault,                \* the last handler ended by throwing
    lastEvent,            \* the event handled last
    slots                 \* the editors the host ever shows

vars == <<srcEditor, asmEditor, document, mappings, visible, registrations,
          visibleTextEditors, selectedDecorations, unusedDecorations, srcPath,
          srcLineCount, asmLineCount, dimUnused, providerDoc, calls, fault,
          lastEvent, slots>>

\* The fields a handler reads and writes, gathered in one record.
This ==
    [srcEditor |-> srcEditor, asmEditor |-> asmEditor, document |-> document,
     mappings |-> mappings, visible |-> visible,
     selected |-> selectedDecorations, unused |-> unusedDecorations,
     calls |-> <<>>, fault |-> FALSE]

Commit(s) ==
    /\ srcEditor' = s.srcEditor
    /\ asmEditor' = s.asmEditor
    /\ document' = s.document
    /\ mappings' = s.mappings
    /\ visible' = s.visible
    /\ selectedDecorations' = s.selected
    /\ unusedDecorations' = s.unused
    /\ calls' = s.calls
    /\ fault' = s.fault

\* ------------------------------------------------------------------ host calls
Call(op, editor, type, ranges) ==
    [op |-> op, editor |-> editor, type |-> type, ranges |-> ranges]

\* TextEditor.setDecorations: the ranges replace the editor's ranges of that type
setDecorations(s, editor, type, ranges) ==
    LET logged == [s EXCEPT !.calls = Append(@, Call("setDecorations", editor, type, ranges))]
    IN  IF type = "selected"
        THEN [logged EXCEPT !.selected[editor] = ranges]
        ELSE [logged EXCEPT !.unused[editor] = ranges]

\* TextEditor.revealRange
revealRange(s, editor, range) ==
    [s EXCEPT !.calls = Append(@, Call("revealRange", editor, "reveal", <<range>>))]

\* AsmProvider.provideAsmDocument(uri): the provider's current listing
provideAsmDocument(s) ==
    [s EXCEPT !.document = providerDoc,
              !.calls = Append(@, Call("provideAsmDocument", NoEditor, "fetch", <<>>))]

\* TextDocument.lineAt(line) throws unless 0 <= line < lineCount
LineAtThrows(line, lineCount) == line < 0 \/ line >= lineCount

\* ------------------------------------------------------------------ index
\* variant: the annotation's whole path, not its basename, is matched
asmLineHasSource_wholePath(asmLine) ==
    LET asmLineSourcePath == IF asmLine.source.present THEN asmLine.source.file ELSE Undefined
    IN  IF asmLineSourcePath = Undefined THEN FALSE
        ELSE EndsWith(srcPath, asmLineSourcePath)

asmLineHasSource(asmLine) ==
    LET sourcePath == srcPath
        asmLineSourcePath == IF asmLine.source.present THEN asmLine.source.file ELSE Undefined
    IN  IF asmLineSourcePath = Undefined THEN FALSE
        ELSE IF ~EndsWith(sourcePath, Basename(asmLineSourcePath)) THEN FALSE
        ELSE TRUE

EmptyMap == [k \in {} |-> <<>>]

\* the forEach of loadMappings from the 0-based position index on
RECURSIVE forEachLine(_, _, _)
forEachLine(lines, index, m) ==
    IF index >= Len(lines) THEN m
    ELSE LET line == lines[index + 1]
         IN  IF ~asmLineHasSource(line) THEN forEachLine(lines, index + 1, m)
             ELSE LET sourceLine == line.source.line - 1
                      created == IF sourceLine \notin DOMAIN m
                                 THEN m @@ (sourceLine :> <<>>) ELSE m
                      pushed == [created EXCEPT ![sourceLine] = Append(@, index)]
                  IN  forEachLine(lines, index + 1, pushed)

\* variant: the map is not cleared before it is filled
loadMappings_noClear(s) ==
    [s EXCEPT !.mappings = forEachLine(s.document, 0, s.mappings)]

loadMappings(s) ==
    LET cleared == EmptyMap
    IN  [s EXCEPT !.mappings = forEachLine(s.document, 0, cleared)]

\* the loop of dimUnusedSourceLines from line on
RECURSIVE unusedFrom(_, _, _)
unusedFrom(m, line, lineCount) ==
    IF line >= lineCount THEN <<>>
    ELSE IF line \notin DOMAIN m
         THEN <<line>> \o unusedFrom(m, line + 1, lineCount)
         ELSE unusedFrom(m, line + 1, lineCount)

\* variant: the loop runs up to and including lineCount
dimUnusedSourceLines_inclusive(s) ==
    setDecorations(s, s.srcEditor, "unused", unusedFrom(s.mappings, 0, srcLineCount + 1))

dimUnusedSourceLines(s) ==
    LET unusedSourceLines == unusedFrom(s.mappings, 0, srcLineCount)
    IN  setDecorations(s, s.srcEditor, "unused", unusedSourceLines)

\* variant: the dim-unused decoration is applied whether visible or not
load_dimWhenHidden(s) ==
    LET mapped == loadMappings(provideAsmDocument(s))
    IN  IF dimUnused THEN dimUnusedSourceLines(mapped) ELSE mapped

\* variant: the index is rebuilt only while visible
load_keepIndexWhenHidden(s) ==
    LET fetched == provideAsmDocument(s)
    IN  IF ~fetched.visible THEN fetched
        ELSE LET mapped == loadMappings(fetched)
             IN  IF dimUnused THEN dimUnusedSourceLines(mapped) ELSE mapped

load(s) ==
    LET fetched == provideAsmDocument(s)
        mapped == loadMappings(fetched)
    IN  IF dimUnused /\ mapped.visible THEN dimUnusedSourceLines(mapped) ELSE mapped

\* ------------------------------------------------------------------ selection
\* an exception leaves the handler; what was done before it stays done
Throw(s) == [s EXCEPT !.fault = TRUE]

\* variant: one entry past the end of the listing view drops the whole batch
asmRangesOf_abort(mapped, lineCount) ==
    IF \E k \in 1..Len(mapped) : mapped[k] >= lineCount THEN <<>> ELSE mapped

\* the ranges pushed by the forEach over the bucket
RECURSIVE asmRangesOf(_, _)
asmRangesOf(mapped, lineCount) ==
    IF mapped = <<>> THEN <<>>
    ELSE IF Head(mapped) >= lineCount THEN asmRangesOf(Tail(mapped), lineCount)
    ELSE <<Head(mapped)>> \o asmRangesOf(Tail(mapped), lineCount)

\* variant: without a bucket the listing view's highlight is left as it is
srcLineSelected_keepStale(s, line) ==
    LET shown == setDecorations(s, s.srcEditor, "selected", <<line>>)
    IN  IF line \notin DOMAIN s.mappings THEN shown
        ELSE LET asmLinesRanges == asmRangesOf(s.mappings[line], asmLineCount)
                 applied == setDecorations(shown, s.asmEditor, "selected", asmLinesRanges)
             IN  IF Len(asmLinesRanges) > 0
                 THEN revealRange(applied, s.asmEditor, asmLinesRanges[1])
                 ELSE applied

srcLineSelected(s, line) ==
    IF LineAtThrows(line, srcLineCount) THEN Throw(s)
    ELSE LET shown == setDecorations(s, s.srcEditor, "selected", <<line>>)
             asmLinesRanges ==
                 IF line \in DOMAIN s.mappings
                 THEN asmRangesOf(s.mappings[line], asmLineCount)
                 ELSE <<>>
             applied == setDecorations(shown, s.asmEditor, "selected", asmLinesRanges)
         IN  IF Len(asmLinesRanges) > 0
             THEN revealRange(applied, s.asmEditor, asmLinesRanges[1])
             ELSE applied

\* variant: the annotation's 1-based line is used as a 0-based line
asmLineSelected_oneBased(s, line) ==
    LET shown == setDecorations(s, s.asmEditor, "selected", <<line>>)
    IN  IF line >= Len(s.document) THEN Throw(shown)
        ELSE LET asmLine == s.document[line + 1]
             IN  IF asmLineHasSource(asmLine)
                 THEN LET srcLine == asmLine.source.line
                      IN  IF LineAtThrows(srcLine, srcLineCount) THEN Throw(shown)
                          ELSE revealRange(
                                   setDecorations(shown, s.srcEditor, "selected", <<srcLine>>),
                                   s.srcEditor, srcLine)
                 ELSE setDecorations(shown, s.srcEditor, "selected", <<>>)

asmLineSelected(s, line) ==
    IF LineAtThrows(line, asmLineCount) THEN Throw(s)
    ELSE LET shown == setDecorations(s, s.asmEditor, "selected", <<line>>)
         IN  IF line >= Len(s.document)
             THEN Throw(shown)   \* asmLine is undefined: reading asmLine.source throws
             ELSE LET asmLine == s.document[line + 1]
                  IN  IF asmLineHasSource(asmLine)
                      THEN LET srcLine == asmLine.source.line - 1
                           IN  IF LineAtThrows(srcLine, srcLineCount) THEN Throw(shown)
                               ELSE revealRange(
                                        setDecorations(shown, s.srcEditor, "selected", <<srcLine>>),
                                        s.srcEditor, srcLine)
                      ELSE setDecorations(shown, s.srcEditor, "selected", <<>>)

\* variant: every editor but the source editor is taken for the listing editor
updateSelection_anyOther(s, editor, line) ==
    IF editor = s.srcEditor THEN srcLineSelected(s, line)
    ELSE asmLineSelected(s, line)

\* line is editor.selection.start.line
updateSelection(s, editor, line) ==
    IF editor = s.srcEditor THEN srcLineSelected(s, line)
    ELSE IF editor = s.asmEditor THEN asmLineSelected(s, line)
    ELSE s

\* ------------------------------------------------------------------ visibility
\* variant: hiding leaves the dim-unused decoration of the source view
updateVisibility_keepDim(s, newVisible) ==
    IF newVisible = s.visible THEN s
    ELSE LET set == [s EXCEPT !.visible = newVisible]
         IN  IF newVisible THEN load(set)
             ELSE setDecorations(setDecorations(set, set.asmEditor, "selected", <<>>),
                                 set.srcEditor, "selected", <<>>)

\* variant: becoming visible sets the flag and reloads nothing
updateVisibility_noReload(s, newVisible) ==
    IF newVisible = s.visible THEN s
    ELSE LET set == [s EXCEPT !.visible = newVisible]
         IN  IF newVisible THEN set
             ELSE LET a == setDecorations(set, set.asmEditor, "selected", <<>>)
                      b == setDecorations(a, set.srcEditor, "selected", <<>>)
                  IN  setDecorations(b, set.srcEditor, "unused", <<>>)

\* variant: an unchanged visibility is processed again
updateVisibility_noGuard(s, newVisible) ==
    LET set == [s EXCEPT !.visible = newVisible]
    IN  IF newVisible THEN load(set)
        ELSE LET a == setDecorations(set, set.asmEditor, "selected", <<>>)
                 b == setDecorations(a, set.srcEditor, "selected", <<>>)
             IN  setDecorations(b, set.srcEditor, "unused", <<>>)

updateVisibility(s, newVisible) ==
    IF newVisible = s.visible THEN s
    ELSE LET set == [s EXCEPT !.visible = newVisible]
         IN  IF newVisible THEN load(set)
             ELSE LET a == setDecorations(set, set.asmEditor, "selected", <<>>)
                      b == setDecorations(a, set.srcEditor, "selected", <<>>)
                  IN  setDecorations(b, set.srcEditor, "unused", <<>>)

\* Array.prototype.find: the first editor showing the document, or NoEditor
Find(editors, doc) ==
    LET hits == {k \in 1..Len(editors) : DocOf(editors[k]) = doc}
    IN  IF hits = {} THEN NoEditor
        ELSE editors[CHOOSE k \in hits : \A j \in hits : k <= j]

\* variant: the handles given to the constructor are kept
onDidChangeVisibleTextEditors_keepHandles(s, editors) ==
    updateVisibility(s, Find(editors, DocOf(s.srcEditor)) # NoEditor
                        /\ Find(editors, DocOf(s.asmEditor)) # NoEditor)

\* variant: visible when either document is found
onDidChangeVisibleTextEditors_either(s, editors) ==
    LET foundSrc == Find(editors, DocOf(s.srcEditor))
        foundAsm == Find(editors, DocOf(s.asmEditor))
        tracked == [s EXCEPT
                      !.srcEditor = IF foundSrc # NoEditor THEN foundSrc ELSE @,
                      !.asmEditor = IF foundAsm # NoEditor THEN foundAsm ELSE @]
    IN  updateVisibility(tracked, foundSrc # NoEditor \/ foundAsm # NoEditor)

onDidChangeVisibleTextEditors(s, editors) ==
    LET foundSrc == Find(editors, DocOf(s.srcEditor))
        foundAsm == Find(editors, DocOf(s.asmEditor))
        tracked == [s EXCEPT
                      !.srcEditor = IF foundSrc # NoEditor THEN foundSrc ELSE @,
                      !.asmEditor = IF foundAsm # NoEditor THEN foundAsm ELSE @]
        newVisible == foundSrc # NoEditor /\ foundAsm # NoEditor
    IN  updateVisibility(tracked, newVisible)

onDidChange(s, changedUri) ==
    IF UriToString(changedUri) = UriToString(AsmUri) THEN load(s) ELSE s

\* ------------------------------------------------------------------ inputs
\* The listings the provider serves in Spec: an empty one, one with two lines
\* of one source line, and one with a foreign file, a line 0 and a line past
\* the end of the source.
ListingPair ==
    << AsmLine(NoSource), AsmLine(AsmSource(FileA, 2)), AsmLine(AsmSource(FileDirA, 2)) >>
ListingMixed ==
    << AsmLine(AsmSource(FileA, 1)), AsmLine(AsmSource(FileBA, 1)),
       AsmLine(AsmSource(FileA, 0)), AsmLine(AsmSource(FileA, MaxSrcLineCount + 1)) >>
Listings == { <<>>, ListingPair, ListingMixed }

\* the orders in which the host may list a set of visible editors
EditorLists ==
    {l \in SeqsUpTo(Editors, Cardinality(Editors)) :
        \A i, j \in 1..Len(l) : i # j => l[i] # l[j]}

Range(l) == {l[k] : k \in 1..Len(l)}

LineCountOf(e) ==
    CASE DocOf(e) = "src" -> srcLineCount
      [] DocOf(e) = "asm" -> asmLineCount
      [] OTHER            -> MaxSrcLineCount

Event(kind, editor, line, uri) ==
    [kind |-> kind, editor |-> editor, line |-> line, uri |-> uri]

NoDecorations == [e \in Editors |-> <<>>]

\* ------------------------------------------------------------------ construction
\* the members of Disposable.from(...) built by the constructor
AllRegistrations ==
    {"selectedLineDecorationType", "unusedLineDecorationType", "providerEventRegistration",
     "onDidChangeTextEditorSelection", "onDidChangeVisibleTextEditors"}

\* variant: the selection subscription is left out of the disposable
dispose_keepsSelection(regs) == regs \cap {"onDidChangeTextEditorSelection"}

\* dispose(): this.registrations.dispose() disposes every member
dispose(regs) == regs \ AllRegistrations

\* the editors the constructor may be given as srcEditor and asmEditor
ConstructorEditors == {"e1", "e2"}

\* the state the constructor leaves: both handles set, visible computed from
\* window.visibleTextEditors, and the first load(uri) done
Constructed(listings, paths, lineCounts, asmLineCounts, shown, shownSets) ==
    /\ slots = shown
    /\ srcPath \in paths
    /\ srcLineCount \in lineCounts
    /\ asmLineCount \in asmLineCounts
    /\ dimUnused \in BOOLEAN
    /\ providerDoc \in listings
    /\ visibleTextEditors \in shownSets
    /\ registrations = AllRegistrations
    /\ lastEvent = Event("constructor", NoEditor, 0, NoUri)
    /\ \E src \in {e \in shown \cap ConstructorEditors : DocOf(e) = "src"},
          asm \in {e \in shown \cap ConstructorEditors : DocOf(e) = "asm"} :
          LET new == [srcEditor |-> src, asmEditor |-> asm, document |-> <<>>,
                      mappings |-> EmptyMap,
                      visible |-> src \in visibleTextEditors /\ asm \in visibleTextEditors,
                      selected |-> NoDecorations, unused |-> NoDecorations,
                      calls |-> <<>>, fault |-> FALSE]
              s == load(new)
          IN  /\ srcEditor = s.srcEditor
              /\ asmEditor = s.asmEditor
              /\ document = s.document
              /\ mappings = s.mappings
              /\ visible = s.visible
              /\ selectedDecorations = s.selected
              /\ unusedDecorations = s.unused
              /\ calls = s.calls
              /\ fault = s.fault

\* Spec follows a source document of a fixed line count in a host with one
\* editor for the source, one for the listing and one for another file
Init ==
    Constructed(Listings, SrcPaths, {MaxSrcLineCount}, 1..MaxAsmLineCount, {"e1", "e2", "e4"},
                SUBSET {"e1", "e2", "e4"})

\* ------------------------------------------------------------------ events
hostUnchanged == UNCHANGED <<srcPath, srcLineCount, asmLineCount, dimUnused, providerDoc, slots>>

\* window.onDidChangeTextEditorSelection fires for a visible editor
SelectionChange(e, line) ==
    /\ "onDidChangeTextEditorSelection" \in registrations
    /\ e \in visibleTextEditors
    /\ line \in 0..(LineCountOf(e) - 1)
    /\ Commit(updateSelection(This, e, line))
    /\ lastEvent' = Event("selection", e, line, NoUri)
    /\ UNCHANGED <<registrations, visibleTextEditors>>
    /\ hostUnchanged

\* window.onDidChangeVisibleTextEditors fires with the new list of editors
VisibleEditorsChange(editors) ==
    /\ Range(editors) \subseteq slots
    /\ visibleTextEditors' = Range(editors)
    /\ IF "onDidChangeVisibleTextEditors" \in registrations
       THEN Commit(onDidChangeVisibleTextEditors(This, editors))
       ELSE Commit(This)
    /\ lastEvent' = Event("visibleEditors", NoEditor, 0, NoUri)
    /\ UNCHANGED registrations
    /\ hostUnchanged

\* provider.onDidChange fires with the URI of a changed listing
ProviderDidChange(changedUri) ==
    /\ "providerEventRegistration" \in registrations
    /\ Commit(onDidChange(This, changedUri))
    /\ lastEvent' = Event("providerChange", NoEditor, 0, changedUri)
    /\ UNCHANGED <<registrations, visibleTextEditors>>
    /\ hostUnchanged

\* the provider regenerates the listing; its notification is a later event
ProviderContentChange(listing) ==
    /\ listing # providerDoc
    /\ providerDoc' = listing
    /\ Commit(This)
    /\ lastEvent' = Event("environment", NoEditor, 0, NoUri)
    /\ UNCHANGED <<registrations, visibleTextEditors, srcPath, srcLineCount, asmLineCount, dimUnused, slots>>

\* the text of the listing view is replaced by a text of n lines
AsmTextChange(n) ==
    /\ n # asmLineCount
    /\ asmLineCount' = n
    /\ Commit(This)
    /\ lastEvent' = Event("environment", NoEditor, 0, NoUri)
    /\ UNCHANGED <<registrations, visibleTextEditors, srcPath, srcLineCount, dimUnused, providerDoc, slots>>

\* the user flips compilerexplorer.dimUnusedSourceLines
ConfigurationChange ==
    /\ dimUnused' = ~dimUnused
    /\ Commit(This)
    /\ lastEvent' = Event("environment", NoEditor, 0, NoUri)
    /\ UNCHANGED <<registrations, visibleTextEditors, srcPath, srcLineCount, asmLineCount, providerDoc, slots>>

\* dispose(): the subscriptions end and both decoration types are disposed,
\* which removes their decorations from every editor
Dispose ==
    /\ registrations = AllRegistrations
    /\ registrations' = dispose(registrations)
    /\ Commit([This EXCEPT
                 !.selected = IF "selectedLineDecorationType" \in registrations'
                              THEN @ ELSE NoDecorations,
                 !.unused = IF "unusedLineDecorationType" \in registrations'
                            THEN @ ELSE NoDecorations])
    /\ lastEvent' = Event("dispose", NoEditor, 0, NoUri)
    /\ UNCHANGED visibleTextEditors
    /\ hostUnchanged

Next ==
    \/ \E e \in Editors, line \in 0..(MaxAsmLineCount + MaxSrcLineCount) : SelectionChange(e, line)
    \/ \E editors \in EditorLists : VisibleEditorsChange(editors)
    \/ \E changedUri \in ChangedUris : ProviderDidChange(changedUri)
    \/ \E listing \in Listings : ProviderContentChange(listing)
    \/ \E n \in 1..MaxAsmLineCount : AsmTextChange(n)
    \/ ConfigurationChange
    \/ Dispose

Spec == Init /\ [][Next]_vars

\* ------------------------------------------------------------------ reloads
\* SpecLoad draws the listing, the source path and the source line count from
\* all bounded values and then reloads on change notifications.
InitLoad ==
    Constructed(AllListings, SrcPaths, 1..MaxSrcLineCount, {MaxAsmLineCount}, {"e1", "e2"},
                {{}, {"e1", "e2"}})

NextLoad == \E changedUri \in ChangedUris : ProviderDidChange(changedUri)

SpecLoad == InitLoad /\ [][NextLoad]_vars

\* ------------------------------------------------------------------ view slots
\* SpecSlots lets both documents move between view slots: the source may be
\* shown by e1 or e3, the listing by e2 or e5.  The provider's listing, a
\* listing view of one line, the source path and the dimming flag stay as
\* constructed.
InitSlots ==
    Constructed({ListingMixed}, {<<"/", "p", "/", "a">>}, {MaxSrcLineCount},
                {1}, {"e1", "e2", "e3", "e5"}, SUBSET {"e1", "e2", "e3", "e5"})

NextSlots ==
    \/ \E e \in Editors, line \in 0..(MaxAsmLineCount + MaxSrcLineCount) : SelectionChange(e, line)
    \/ \E editors \in EditorLists : VisibleEditorsChange(editors)
    \/ \E changedUri \in ChangedUris : ProviderDidChange(changedUri)

SpecSlots == InitSlots /\ [][NextSlots]_vars

\* ------------------------------------------------------------------ properties
\* What the properties below say in the specification's own terms.

\* a is a suffix of b
IsSuffix(a, b) == \E k \in 0..Len(b) : SubSeq(b, k + 1, Len(b)) = a

\* the listing line carries an annotation whose file basename is a suffix of F
HasSourceFor(line, F) ==
    /\ line.source.present
    /\ line.source.file # Undefined
    /\ IsSuffix(Basename(line.source.file), F)

\* the 0-based positions of L that originate from source line s of F
OriginatingFrom(L, F, s) ==
    {i \in 0..(Len(L) - 1) : HasSourceFor(L[i + 1], F) /\ L[i + 1].source.line - 1 = s}

\* m is the correspondence index of listing L for source path F
IsIndexOf(m, L, F) ==
    /\ DOMAIN m = {L[i + 1].source.line - 1 : i \in {j \in 0..(Len(L) - 1) : HasSourceFor(L[j + 1], F)}}
    /\ \A s \in DOMAIN m :
          /\ Range(m[s]) = OriginatingFrom(L, F, s)
          /\ \A a, b \in 1..Len(m[s]) : a < b => m[s][a] < m[s][b]

\* ranges lists exactly the lines of 0..n-1 without a bucket in m, each once
IsUnusedSetOf(ranges, m, n) ==
    /\ Range(ranges) = {l \in 0..(n - 1) : l \notin DOMAIN m}
    /\ Len(ranges) = Cardinality(Range(ranges))

IsCall(c, op, editor, type) == c.op = op /\ c.editor = editor /\ c.type = type
CallsOf(op, editor, type) == {k \in 1..Len(calls) : IsCall(calls[k], op, editor, type)}

\* the last event was a change notification naming the tracked listing
ReloadedByNotification ==
    /\ lastEvent.kind = "providerChange"
    /\ UriToString(lastEvent.uri) = UriToString(AsmUri)

\* C1 Index correctness: after loadMappings the bucket of source line s holds
\* exactly the listing indices whose annotation has a file basename that is a
\* suffix of the source path and line - 1 = s, in ascending order, and no
\* other key has a bucket.
C1_IndexCorrect == IsIndexOf(mappings, document, srcPath)

\* C1 witness: a reload built an index with a bucket of two listing lines
\* annotated with different files, next to a negative key.
C1_Witness ==
    /\ ReloadedByNotification
    /\ \E s \in DOMAIN mappings :
          /\ Len(mappings[s]) = 2
          /\ document[mappings[s][1] + 1].source.file # document[mappings[s][2] + 1].source.file

\* C6 Reload idempotence: a reload that directly follows a load and fetches
\* the same listing leaves the index and the dim-unused set of the source
\* view as the first load left them.
C6_ReloadIdempotent ==
    [][ ( /\ lastEvent.kind \in {"constructor", "providerChange"}
          /\ lastEvent.kind = "providerChange" => UriToString(lastEvent.uri) = UriToString(AsmUri)
          /\ lastEvent'.kind = "providerChange"
          /\ UriToString(lastEvent'.uri) = UriToString(AsmUri)
          /\ providerDoc = document )
        => ( /\ mappings' = mappings
             /\ unusedDecorations'[srcEditor'] = unusedDecorations[srcEditor] ) ]_vars

\* C6 witness: a reload of an unchanged listing with a bucket of two lines
\* while dimming is on and the pair is visible.
C6_Witness ==
    /\ ReloadedByNotification
    /\ providerDoc = document
    /\ visible /\ dimUnused
    /\ \E s \in DOMAIN mappings : Len(mappings[s]) = 2
    /\ unusedDecorations[srcEditor] # <<>>

\* C9 Unused-line detection: whenever a load applies the dim-unused
\* decoration, the lines it dims are exactly the lines of 0..lineCount-1 with
\* no bucket; keys outside that range change nothing.
C9_UnusedLines ==
    \A k \in 1..Len(calls) :
        (calls[k].op = "setDecorations" /\ calls[k].type = "unused"
            /\ \/ lastEvent.kind \in {"constructor", "providerChange"}
               \/ lastEvent.kind = "visibleEditors" /\ visible)
        => /\ calls[k].editor = srcEditor
           /\ IsUnusedSetOf(calls[k].ranges, mappings, srcLineCount)
           /\ unusedDecorations[srcEditor] = calls[k].ranges

\* C9 witness: a reload dimmed some line but not all while the index also
\* holds a key outside the source view's line range.
C9_Witness ==
    /\ ReloadedByNotification
    /\ CallsOf("setDecorations", srcEditor, "unused") # {}
    /\ unusedDecorations[srcEditor] # <<>>
    /\ Len(unusedDecorations[srcEditor]) < srcLineCount
    /\ \E s \in DOMAIN mappings : s < 0 \/ s >= srcLineCount

\* the last event was a selection change raised by the tracked source view
SourceSelected == lastEvent.kind = "selection" /\ lastEvent.editor = srcEditor
\* the last event was a selection change raised by the tracked listing view
ListingSelected == lastEvent.kind = "selection" /\ lastEvent.editor = asmEditor

BucketOf(m, s) == IF s \in DOMAIN m THEN m[s] ELSE <<>>

\* C2 Hidden-state isolation: while visible is false no handler issues a
\* setDecorations call with a non-empty range set, for either style, to any
\* view.
C2_HiddenStateIsolation ==
    ~visible =>
        \A k \in 1..Len(calls) :
            calls[k].op = "setDecorations" => calls[k].ranges = <<>>

\* C3 No-mapping clears opposite view: after a source-view selection of a
\* line without a bucket the listing view's selected highlight is empty and
\* no reveal was issued on the listing view.
C3_NoMappingClears ==
    (SourceSelected /\ lastEvent.line \notin DOMAIN mappings)
    => /\ selectedDecorations[asmEditor] = <<>>
       /\ CallsOf("revealRange", asmEditor, "reveal") = {}

\* C3 witness: a source line without a bucket was selected while other
\* source lines have buckets, and the listing highlight was replaced by the
\* empty set.
C3_Witness ==
    /\ SourceSelected
    /\ lastEvent.line \notin DOMAIN mappings
    /\ \E s \in DOMAIN mappings : s >= 0 /\ s < srcLineCount
    /\ \E k \in CallsOf("setDecorations", asmEditor, "selected") : calls[k].ranges = <<>>

\* C4 Round-trip locality: a source-view selection of a line s with a
\* non-empty bucket directly followed by a listing-view selection of the
\* bucket's first index ends with the source view highlighting exactly s.
C4_RoundTrip ==
    [][ ( /\ SourceSelected
          /\ BucketOf(mappings, lastEvent.line) # <<>>
          /\ lastEvent'.kind = "selection"
          /\ lastEvent'.editor = asmEditor
          /\ lastEvent'.line = BucketOf(mappings, lastEvent.line)[1] )
        => ( /\ selectedDecorations'[srcEditor'] = <<lastEvent.line>>
             /\ ~fault' ) ]_vars

\* C4 witness: a listing line that heads the bucket of its source line was
\* selected and the source view highlights that source line.
C4_Witness ==
    /\ ListingSelected
    /\ ~fault
    /\ \E s \in DOMAIN mappings :
          /\ mappings[s][1] = lastEvent.line
          /\ Len(mappings[s]) > 1
          /\ selectedDecorations[srcEditor] = <<s>>
          /\ CallsOf("revealRange", srcEditor, "reveal") # {}

\* C5 Stale-index tolerance: a source-view selection of s ends without a
\* fault, and one setDecorations call gives the listing view exactly the
\* entries of s's bucket that are below the listing view's line count.
C5_StaleIndexTolerance ==
    SourceSelected
    => LET bucket == BucketOf(mappings, lastEvent.line)
           batch == selectedDecorations[asmEditor]
       IN  /\ ~fault
           /\ Range(batch) = {i \in Range(bucket) : i < asmLineCount}
           /\ Len(batch) = Cardinality(Range(batch))
           /\ \E k \in 1..Len(calls) :
                 /\ CallsOf("setDecorations", asmEditor, "selected") = {k}
                 /\ calls[k].ranges = batch

\* C5 witness: the selected line's bucket holds an index past the end of the
\* listing view and one inside it, and the one inside is highlighted.
C5_Witness ==
    /\ SourceSelected
    /\ \E i \in Range(BucketOf(mappings, lastEvent.line)) : i >= asmLineCount
    /\ \E i \in Range(BucketOf(mappings, lastEvent.line)) : i < asmLineCount
    /\ selectedDecorations[asmEditor] # <<>>

\* C7 Transition Visible->Hidden: the step that takes visible from true to
\* false issues the three clearing calls, and after it the selected sets of
\* both tracked views and the dim-unused set of the source view are empty.
C7_HideClears ==
    [][ (visible /\ ~visible')
        => ( /\ selectedDecorations'[asmEditor'] = <<>>
             /\ selectedDecorations'[srcEditor'] = <<>>
             /\ unusedDecorations'[srcEditor'] = <<>>
             /\ \E k \in 1..Len(calls') :
                   IsCall(calls'[k], "setDecorations", asmEditor', "selected")
             /\ \E k \in 1..Len(calls') :
                   IsCall(calls'[k], "setDecorations", srcEditor', "selected")
             /\ \E k \in 1..Len(calls') :
                   IsCall(calls'[k], "setDecorations", srcEditor', "unused") ) ]_vars

\* C7 witness: a view-set change hid the listing view while the source view
\* stayed visible, and the handler cleared the decorations.
C7_Witness ==
    /\ lastEvent.kind = "visibleEditors"
    /\ ~visible
    /\ srcEditor \in visibleTextEditors
    /\ CallsOf("setDecorations", srcEditor, "unused") # {}
    /\ CallsOf("setDecorations", srcEditor, "selected") # {}
    /\ CallsOf("setDecorations", asmEditor, "selected") # {}

\* C8 Transition Hidden->Visible: the step that takes visible from false to
\* true fetches the provider's listing, rebuilds the index from it and, if
\* the dimming flag is on, gives the source view the unused lines of the
\* rebuilt index.
C8_ShowReloads ==
    [][ (~visible /\ visible')
        => ( /\ Len(calls') >= 1
             /\ calls'[1].op = "provideAsmDocument"
             /\ document' = providerDoc
             /\ IsIndexOf(mappings', providerDoc, srcPath)
             /\ dimUnused =>
                   /\ \E k \in 1..Len(calls') :
                         /\ IsCall(calls'[k], "setDecorations", srcEditor', "unused")
                         /\ calls'[k].ranges = unusedDecorations'[srcEditor']
                   /\ IsUnusedSetOf(unusedDecorations'[srcEditor'], mappings', srcLineCount) ) ]_vars

\* C8 witness: a view-set change made the pair visible with dimming on, the
\* listing was fetched, has buckets, and some source line was dimmed.
C8_Witness ==
    /\ lastEvent.kind = "visibleEditors"
    /\ visible /\ dimUnused
    /\ CallsOf("provideAsmDocument", NoEditor, "fetch") # {}
    /\ DOMAIN mappings # {}
    /\ unusedDecorations[srcEditor] # <<>>

\* C10 Listing-change handling: a notification whose URI has the string form
\* of the tracked listing's URI fetches the listing and rebuilds the index
\* whether visible or not, and applies the dim-unused decoration only if
\* visible with the dimming flag on; a notification for another URI changes
\* neither the listing, the index, visible nor any decoration.
C10_ListingChange ==
    [][ (lastEvent'.kind = "providerChange")
        => IF UriToString(lastEvent'.uri) = UriToString(AsmUri)
           THEN /\ CallsOf("provideAsmDocument", NoEditor, "fetch")' # {}
                /\ document' = providerDoc
                /\ IsIndexOf(mappings', providerDoc, srcPath)
                /\ visible' = visible
                /\ (\E k \in 1..Len(calls') :
                        calls'[k].op = "setDecorations" /\ calls'[k].type = "unused")
                   => (visible /\ dimUnused)
           ELSE /\ UNCHANGED <<document, mappings, visible, selectedDecorations, unusedDecorations>>
                /\ calls' = <<>> ]_vars

\* C10 witness: a notification for the tracked listing, given as another Uri
\* object of the same string form, arrived while hidden with dimming on: the
\* listing was fetched and indexed and nothing was dimmed.
C10_Witness ==
    /\ lastEvent.kind = "providerChange"
    /\ lastEvent.uri = AsmUriCopy
    /\ ~visible /\ dimUnused
    /\ CallsOf("provideAsmDocument", NoEditor, "fetch") # {}
    /\ DOMAIN mappings # {}
    /\ CallsOf("setDecorations", srcEditor, "unused") = {}

\* what a handler may change: the decorator's fields and the decorations
Untouched ==
    UNCHANGED <<srcEditor, asmEditor, document, mappings, visible,
                selectedDecorations, unusedDecorations>>

\* C11 Visibility no-op: a handled view-set change that leaves visible as it
\* was fetches nothing, rebuilds nothing and issues no decoration call; the
\* listing, the index and every view's decorations stay as they were.
C11_VisibilityNoOp ==
    [][ ( /\ lastEvent'.kind = "visibleEditors"
          /\ "onDidChangeVisibleTextEditors" \in registrations
          /\ visible' = visible )
        => ( /\ calls' = <<>>
             /\ UNCHANGED <<document, mappings, selectedDecorations, unusedDecorations>> ) ]_vars

\* C11 witness: a view-set change arrived while visible, the pair stayed
\* visible next to another editor, and the highlights and the stale listing
\* were left alone.
C11_Witness ==
    /\ lastEvent.kind = "visibleEditors"
    /\ "onDidChangeVisibleTextEditors" \in registrations
    /\ visible
    /\ "e4" \in visibleTextEditors
    /\ calls = <<>>
    /\ selectedDecorations[srcEditor] # <<>>
    /\ document # providerDoc

\* C12 Selection dispatch: a selection event of the tracked source view runs
\* the source->listing handler only, one of the tracked listing view runs
\* the listing->source handler only, and one of any other view calls
\* nothing and changes nothing.
C12_SelectionDispatch ==
    [][ (lastEvent'.kind = "selection")
        => IF lastEvent'.editor = srcEditor
           THEN /\ Len(calls') >= 2
                /\ calls'[1] = Call("setDecorations", srcEditor, "selected", <<lastEvent'.line>>)
                /\ \A k \in 2..Len(calls') : calls'[k].editor = asmEditor
           ELSE IF lastEvent'.editor = asmEditor
           THEN /\ Len(calls') >= 1
                /\ calls'[1] = Call("setDecorations", asmEditor, "selected", <<lastEvent'.line>>)
                /\ \A k \in 2..Len(calls') : calls'[k].editor = srcEditor
           ELSE /\ calls' = <<>>
                /\ ~fault'
                /\ Untouched ]_vars

\* C12 witness: an editor that is neither tracked view raised a selection
\* event while both tracked views carried highlights, and nothing was called.
C12_Witness ==
    /\ lastEvent.kind = "selection"
    /\ lastEvent.editor \notin {srcEditor, asmEditor}
    /\ calls = <<>>
    /\ selectedDecorations[srcEditor] # <<>>
    /\ selectedDecorations[asmEditor] # <<>>

\* C13 Visibility invariant: while the view-set subscription is live, visible
\* is true exactly when both tracked handles are among the host's visible
\* editors.
C13_VisibleIffBothShown ==
    "onDidChangeVisibleTextEditors" \in registrations
    => (visible <=> (srcEditor \in visibleTextEditors /\ asmEditor \in visibleTextEditors))

\* C13 witness: a handled view-set change left the listing view visible and
\* the source view not, and visible is false.
C13_Witness ==
    /\ lastEvent.kind = "visibleEditors"
    /\ "onDidChangeVisibleTextEditors" \in registrations
    /\ asmEditor \in visibleTextEditors
    /\ srcEditor \notin visibleTextEditors
    /\ ~visible

\* dispose() has run
Disposed == "selectedLineDecorationType" \notin registrations

\* C14 Disposal: dispose releases the three subscriptions and the two
\* decoration styles in one step, and from then on no event changes the
\* index, the listing, visible, the handles or any decoration.
C14_Disposal ==
    [][ /\ (lastEvent'.kind = "dispose")
            => ( /\ registrations' = {}
                 /\ selectedDecorations' = NoDecorations
                 /\ unusedDecorations' = NoDecorations )
        /\ Disposed => (Untouched /\ calls' = <<>>) ]_vars

\* C14 witness: after dispose the host hid the tracked views and the
\* decorator's visible flag still says visible: the event did not reach it.
C14_Witness ==
    /\ registrations = {}
    /\ lastEvent.kind = "visibleEditors"
    /\ visible
    /\ srcEditor \notin visibleTextEditors
    /\ asmEditor \notin visibleTextEditors

\* C15 Listing->source result: after a listing-view selection of line i the
\* listing view highlights exactly i; if listing line i has source for the
\* source view, the source view highlights exactly line - 1 of the
\* annotation and a reveal of it is issued there; otherwise the source
\* view's highlight is empty and no reveal is issued.
C15_ListingToSource ==
    ListingSelected
    => LET i == lastEvent.line
           hasSource == i < Len(document) /\ HasSourceFor(document[i + 1], srcPath)
       IN  /\ selectedDecorations[asmEditor] = <<i>>
           /\ IF hasSource
              THEN /\ selectedDecorations[srcEditor] = <<document[i + 1].source.line - 1>>
                   /\ \E k \in CallsOf("revealRange", srcEditor, "reveal") :
                         calls[k].ranges = <<document[i + 1].source.line - 1>>
              ELSE /\ selectedDecorations[srcEditor] = <<>>
                   /\ CallsOf("revealRange", srcEditor, "reveal") = {}

\* C16 Supersession: the highlights a dispatched selection event leaves in
\* both tracked views are those the same event leaves when no highlight
\* existed before it; for a source selection of s they are {s} and the
\* entries of s's bucket below the listing view's line count.
C16_Supersession ==
    [][ (lastEvent'.kind = "selection" /\ lastEvent'.editor \in {srcEditor, asmEditor})
        => LET fresh == updateSelection([This EXCEPT !.selected = NoDecorations],
                                        lastEvent'.editor, lastEvent'.line)
           IN  /\ selectedDecorations'[srcEditor] = fresh.selected[srcEditor]
               /\ selectedDecorations'[asmEditor] = fresh.selected[asmEditor]
               /\ (lastEvent'.editor = srcEditor)
                  => /\ selectedDecorations'[srcEditor] = <<lastEvent'.line>>
                     /\ Range(selectedDecorations'[asmEditor]) =
                          {i \in Range(BucketOf(mappings, lastEvent'.line)) : i < asmLineCount} ]_vars

\* C17 Index consistency at event boundaries: in every state between events
\* each index stored under key s is a line of the fetched listing that has
\* source for the source view with line - 1 = s, the index is the whole
\* index of that listing, and a step that fetched holds the provider's
\* listing.
C17_IndexConsistent ==
    /\ \A s \in DOMAIN mappings : \A k \in 1..Len(mappings[s]) :
          LET i == mappings[s][k]
          IN  /\ i >= 0 /\ i < Len(document)
              /\ HasSourceFor(document[i + 1], srcPath)
              /\ document[i + 1].source.line - 1 = s
    /\ IsIndexOf(mappings, document, srcPath)
    /\ CallsOf("provideAsmDocument", NoEditor, "fetch") # {} => document = providerDoc

\* C17 witness: a selection was handled after a reload while hidden had
\* replaced the listing, and the index holds a negative key and a key past
\* the end of the source.
C17_Witness ==
    /\ lastEvent.kind = "selection"
    /\ ~visible
    /\ \E s \in DOMAIN mappings : s < 0
    /\ \E s \in DOMAIN mappings : s >= srcLineCount
    /\ document # providerDoc

\* C20 Fault-free selection handling: every selection event on a line of
\* the raising view is handled to its end without a fault.
C20_NoFault == (lastEvent.kind = "selection") => ~fault

\* the visible editors that show the document of the tracked editor e
ShowingDocOf(e, shownEditors) == {v \in shownEditors : DocOf(v) = DocOf(e)}

\* C18 Handle re-association: a handled view-set change makes each tracked
\* handle a visible editor of its document if there is one and keeps it
\* otherwise, and sets visible to both documents being shown; a selection
\* event is dispatched in the role of the handle tracked now, and one from
\* any other editor, a replaced handle included, is ignored.
C18_HandleReassociation ==
    [][ /\ ( /\ lastEvent'.kind = "visibleEditors"
              /\ "onDidChangeVisibleTextEditors" \in registrations )
            => LET shownSrc == ShowingDocOf(srcEditor, visibleTextEditors')
                   shownAsm == ShowingDocOf(asmEditor, visibleTextEditors')
               IN  /\ IF shownSrc # {} THEN srcEditor' \in shownSrc ELSE srcEditor' = srcEditor
                   /\ IF shownAsm # {} THEN asmEditor' \in shownAsm ELSE asmEditor' = asmEditor
                   /\ visible' <=> (shownSrc # {} /\ shownAsm # {})
        /\ (lastEvent'.kind = "selection")
            => /\ (lastEvent'.editor = srcEditor)
                  => ( /\ Len(calls') >= 1
                       /\ calls'[1] = Call("setDecorations", srcEditor, "selected", <<lastEvent'.line>>) )
               /\ (lastEvent'.editor = asmEditor)
                  => ( /\ Len(calls') >= 1
                       /\ calls'[1] = Call("setDecorations", asmEditor, "selected", <<lastEvent'.line>>) )
               /\ (lastEvent'.editor \notin {srcEditor, asmEditor})
                  => (calls' = <<>> /\ Untouched) ]_vars

\* C18 witness: both documents moved to other slots, the handles followed,
\* and a selection event of the replaced source handle, still visible, was
\* ignored.
C18_Witness ==
    /\ srcEditor = "e3"
    /\ asmEditor = "e5"
    /\ visible
    /\ lastEvent.kind = "selection"
    /\ lastEvent.editor = "e1"
    /\ calls = <<>>
    /\ selectedDecorations["e3"] # <<>>

\* C19 Dimming consistency: after construction and after every handled
\* event, the dim-unused decoration of the tracked source view is the
\* unused-line set of the index if visible with the dimming flag on, and is
\* empty if hidden.
C19_DimmingConsistent ==
    (registrations = AllRegistrations /\ lastEvent.kind # "environment")
    => /\ (visible /\ dimUnused)
          => IsUnusedSetOf(unusedDecorations[srcEditor], mappings, srcLineCount)
       /\ ~visible => unusedDecorations[srcEditor] = <<>>

====
